---- MODULE Spec2Model ----
(***************************************************************************)
(* A model of backend/src/compile.rs of ende: the lowering of the AST      *)
(* (Term / Statement / Block) to LLVM IR through the LLVM C API, followed   *)
(* by the execution of the generated entry function.                       *)
(*                                                                         *)
(* gen_module is followed position by position: the module and "main" are  *)
(* created, decl_funcs declares the callees, init_module lowers the body.  *)
(* The LLVM module is a value (declared functions, basic blocks with their *)
(* instructions, the builder's position, the next fresh value handle) that *)
(* the build operators thread through the recursive descent exactly as the *)
(* Rust code threads the builder.                                          *)
(***************************************************************************)
EXTENDS Integers, Sequences, FiniteSets, TLC

VARIABLES program, pc, llvm, result, ex

vars == <<program, pc, llvm, result, ex>>

(***************************************************************************)
(* AST (crate ast, used by compile.rs through `use ast::*`).               *)
(***************************************************************************)
Literal(i) == [tag |-> "Literal", i |-> i]
Var(n) == [tag |-> "Var", name |-> n]
Infix(l, o, r) == [tag |-> "Infix", left |-> l, op |-> o, right |-> r]
FunctionCall(n, a) == [name |-> n, arity |-> a]
Call(n, as) == [tag |-> "Call", call |-> FunctionCall(n, Len(as)), args |-> as]
Scope(b) == [tag |-> "Scope", block |-> b]
While(c, b) == [tag |-> "While", cond |-> c, body |-> b]
TermSemicolon(t) == [tag |-> "TermSemicolon", term |-> t]
Let(n, t) == [tag |-> "Let", lhs |-> n, rhs |-> t]
LetMut(n, t) == [tag |-> "LetMut", lhs |-> n, rhs |-> t]
Mutate(n, t) == [tag |-> "Mutate", lhs |-> n, rhs |-> t]
Block(ss, e) == [stmts |-> ss, end |-> e]

(***************************************************************************)
(* Levity and the environment Map: name -> (LLVMValueRef, Levity).  A      *)
(* HashMap lays its keys out as it is filled and a clone keeps the layout, *)
(* so an entry holds, besides the pair,                                    *)
(*   ord  : the place of its key among the keys in the order they were     *)
(*          inserted                                                       *)
(*   grew : the number of keys the map held when an insert of this key,    *)
(*          which the map held already, made the table grow; 0 if none did *)
(* insert makes room for one more key before it looks the key up: a table  *)
(* that is full grows, and is laid out anew, also when the key is held and *)
(* only its pair is replaced.                                              *)
(***************************************************************************)
Boxed == [lev |-> "Boxed", c |-> 0]
Unboxed(c) == [lev |-> "Unboxed", c |-> c]
(* Unboxed(n) for a number n the build cannot tell: no line of compile.rs  *)
(* reads the number (lines 257, 302 and 397 match Unboxed(_)), so every    *)
(* such n gives the same build                                             *)
UnboxedAny == [lev |-> "Unboxed", any |-> "i32"]

EmptyEnv == [n \in {} |-> 0]
(* a table of 4 buckets is full with 3 keys, and a table of 8, 16, 32, ..  *)
(* buckets with 7/8 of them: 7, 14, 28, 56, 112, .. keys                   *)
RECURSIVE PowerOfTwo(_)
PowerOfTwo(n) == n = 1 \/ (n > 1 /\ n % 2 = 0 /\ PowerOfTwo(n \div 2))
FullAt(n) == n = 3 \/ (n >= 7 /\ n % 7 = 0 /\ PowerOfTwo(n \div 7))

(* the table has grown since the last key was added *)
Grown(env) == \E k \in DOMAIN env : env[k].grew = Cardinality(DOMAIN env)
Full(env) == FullAt(Cardinality(DOMAIN env)) /\ ~Grown(env)

EnvInsert(env, k, v, l) ==
  [n \in (DOMAIN env) \cup {k} |->
     IF n = k
     THEN [val |-> v, lev |-> l,
           ord |-> IF k \in DOMAIN env THEN env[k].ord ELSE Cardinality(DOMAIN env) + 1,
           grew |-> IF k \notin DOMAIN env THEN 0
                    ELSE IF Full(env) THEN Cardinality(DOMAIN env) ELSE env[k].grew]
     ELSE env[n]]

(* the keys of env in the order they were inserted *)
Inserted(env) ==
  [i \in 1..Cardinality(DOMAIN env) |-> CHOOSE k \in DOMAIN env : env[k].ord = i]

(* What the layout of a map depends on: the keys in the order they were    *)
(* inserted, and whether the table has grown since the last of them.       *)
Layout(env) == [keys |-> Inserted(env), grown |-> Grown(env)]
NoLayout == [keys |-> << >>, grown |-> FALSE]
LayoutInsert(h, k) ==
  IF \E i \in DOMAIN h.keys : h.keys[i] = k
  THEN [h EXCEPT !.grown = @ \/ FullAt(Len(h.keys))]
  ELSE [keys |-> Append(h.keys, k), grown |-> FALSE]

(***************************************************************************)
(* LLVM values: integer constants, the non-integer constant that constant  *)
(* folding yields for a division with no result (undef / poison), results  *)
(* of instructions, and the null function of a failed lookup.              *)
(***************************************************************************)
ConstInt(v) == [k |-> "const", v |-> v]
Undef == [k |-> "undef", v |-> 0]
Reg(id) == [k |-> "reg", v |-> id]
IsConst(x) == x.k \in {"const", "undef"}

(***************************************************************************)
(* i32 arithmetic (LLVMIntType(32)): two's complement, wrapping.  The      *)
(* values are the integers MinInt32..MaxInt32; sums and products are        *)
(* computed without leaving that range (sums by cases on the overflow,     *)
(* products on 8-bit limbs).                                               *)
(***************************************************************************)
MaxInt32 == 2147483647
MinInt32 == -MaxInt32 - 1

AddWrap(a, b) ==
  IF b > 0 /\ a > MaxInt32 - b THEN ((a - MaxInt32) - 1) + ((b - MaxInt32) - 1)
  ELSE IF b < 0 /\ a < MinInt32 - b THEN ((a + MaxInt32) + 1) + ((b + MaxInt32) + 1)
  ELSE a + b

NegWrap(b) == IF b = MinInt32 THEN MinInt32 ELSE -b

SubWrap(a, b) == AddWrap(a, NegWrap(b))

(* the four bytes of the two's complement representation, low byte first *)
Limbs(a) ==
  <<a % 256, (a \div 256) % 256, (a \div 65536) % 256, (a \div 16777216) % 256>>

FromLimbs(l) ==
  (IF l[4] >= 128 THEN l[4] - 256 ELSE l[4]) * 16777216 + l[3] * 65536 + l[2] * 256 + l[1]

MulWrap(a, b) ==
  LET x == Limbs(a)
      y == Limbs(b)
      c1 == x[1] * y[1]
      c2 == x[1] * y[2] + x[2] * y[1] + (c1 \div 256)
      c3 == x[1] * y[3] + x[2] * y[2] + x[3] * y[1] + (c2 \div 256)
      c4 == x[1] * y[4] + x[2] * y[3] + x[3] * y[2] + x[4] * y[1] + (c3 \div 256)
  IN FromLimbs(<<c1 % 256, c2 % 256, c3 % 256, c4 % 256>>)

(* signed division rounds towards zero; b # 0 and not MinInt32 / -1 *)
DivPos(a, b) ==
  LET q == a \div b IN IF a < 0 /\ a % b # 0 THEN q + 1 ELSE q

SDivTrunc(a, b) ==
  IF b > 0 THEN DivPos(a, b)
  ELSE IF b = MinInt32 THEN (IF a = MinInt32 THEN 1 ELSE 0)
  ELSE -DivPos(a, -b)

DivUndefined(a, b) == b = 0 \/ (a = MinInt32 /\ b = -1)

(* Literal(i) => LLVMConstInt(LLVMIntType(32), i as u64, 0) *)
LLVMConstInt32(i) == ConstInt(i)

(* The IRBuilder's constant folder on two constants. *)
FoldBinOp(o, a, b) ==
  IF a.k = "undef" \/ b.k = "undef" THEN Undef
  ELSE CASE o = "Add" -> ConstInt(AddWrap(a.v, b.v))
         [] o = "Sub" -> ConstInt(SubWrap(a.v, b.v))
         [] o = "Mul" -> ConstInt(MulWrap(a.v, b.v))
         [] o = "Div" -> IF DivUndefined(a.v, b.v) THEN Undef
                         ELSE ConstInt(SDivTrunc(a.v, b.v))

FoldICmpEq(a, b) ==
  IF a.k = "undef" \/ b.k = "undef" THEN Undef
  ELSE ConstInt(IF a.v = b.v THEN 1 ELSE 0)

(***************************************************************************)
(* The module under construction.                                          *)
(*   funcs  : the functions added with LLVMAddFunction, in order, under    *)
(*            the names the module gave them                               *)
(*   uniq   : the counter the module's symbol table takes suffixes from    *)
(*   blocks : the basic blocks of "main", in order of LLVMAppendBasicBlock *)
(*   cur    : the block the builder is positioned at the end of            *)
(*   next   : the next fresh value handle                                  *)
(*   lookups : how many times LLVMGetNamedFunction has been called         *)
(*   sexts  : how many times LLVMConstIntGetSExtValue has been called on   *)
(*            a value that is no ConstantInt                               *)
(*   log    : the calls of build, in order (entered terms and statements,  *)
(*            with the environment they were given, and their results)     *)
(* The names of blocks and of instructions are not part of it: LLVM reads  *)
(* them through pointers that dangle (to_raw) or that point at a &str with *)
(* no terminating NUL (as_ptr), makes them unique and uses them to print   *)
(* the module; handles, edges and lookups never go through them.           *)
(***************************************************************************)
NoModule == [funcs |-> << >>, uniq |-> 0, blocks |-> << >>, cur |-> 0, next |-> 1,
             lookups |-> 0, sexts |-> 0, log |-> << >>]

Emit(st, ins) ==
  [st EXCEPT !.blocks[st.cur].instrs = Append(@, ins)]

LogEv(st, e) == [st EXCEPT !.log = Append(@, e)]

(* LLVMAppendBasicBlock(func, name): a new empty block, the last of func *)
AppendBasicBlock(st) ==
  [st EXCEPT !.blocks = Append(@, [instrs |-> << >>])]

(* PositionBuilderAtEnd, were the builder to stay in the first block it    *)
(* was put in (C11 tells the two apart)                                    *)
PositionBuilderStaying(st, b) == [st EXCEPT !.cur = IF @ = 0 THEN b ELSE @]

(* LLVMPositionBuilderAtEnd(builder, b) *)
PositionBuilderAtEnd(st, b) == [st EXCEPT !.cur = b]

(* LLVMBuildAdd / Sub / Mul / SDiv: folded when both operands are constants *)
BuildBinOp(st, o, l, r) ==
  IF IsConst(l) /\ IsConst(r)
  THEN [st |-> st, val |-> FoldBinOp(o, l, r)]
  ELSE [st |-> [Emit(st, [op |-> "bin", id |-> st.next, o |-> o, l |-> l, r |-> r])
                 EXCEPT !.next = @ + 1],
        val |-> Reg(st.next)]

(* LLVMBuildICmp(builder, LLVMIntEQ, l, r, "iszero") *)
BuildICmpEq(st, l, r) ==
  IF IsConst(l) /\ IsConst(r)
  THEN [st |-> st, val |-> FoldICmpEq(l, r)]
  ELSE [st |-> [Emit(st, [op |-> "icmp", id |-> st.next, l |-> l, r |-> r])
                 EXCEPT !.next = @ + 1],
        val |-> Reg(st.next)]

(***************************************************************************)
(* ToRaw::to_raw: CString::new fails on a name with an interior NUL byte.   *)
(* NulNames are the names of the model that hold one.                      *)
(* Otherwise to_raw returns as_ptr() of a CString that is dropped as the   *)
(* closure returns: the drop writes NUL over the first byte and frees the  *)
(* buffer, and LLVM reads the name from there afterwards.  It reads the    *)
(* empty string where nothing has been written since, or the bytes the     *)
(* allocator has put into the freed chunk; it never reads the name.  Freed *)
(* The byte strings matter only by which reads are equal, so they are      *)
(* named in the order of their first use: FreedBytes(n) is the n-th byte   *)
(* string read that differs from the empty string and from the ones read   *)
(* before.  Freed(m) lists what a read can be when m reads have been made  *)
(* or are being made: with m functions, m names that all differ.           *)
(***************************************************************************)
NulNames == {"g_nul"}
ToRawOk(name) == name \notin NulNames
NulError == <<"NulError", "nul byte found in data">>

FreedBytes(n) == "~" \o ToString(n)
Freed(m) == {""} \cup {FreedBytes(n) : n \in 1..m}

(* raws, read one after the other with st as the module, name the byte     *)
(* strings in the order of their first use                                 *)
FirstUse(st, raws) ==
  \A i \in DOMAIN raws :
    raws[i] \in Freed(1 + Cardinality({n \in 1..(Len(st.funcs) + Len(raws)) :
                                         \/ \E j \in DOMAIN st.funcs :
                                              st.funcs[j].name = FreedBytes(n)
                                         \/ \E j \in 1..(i - 1) : raws[j] = FreedBytes(n)}))

(* LLVMAddFunction(module, name, func_ty): a function of the empty name    *)
(* stays out of the symbol table; a name the table holds already gets the  *)
(* next suffix                                                             *)
AddFunction(st, raw, arity) ==
  IF raw # "" /\ \E i \in DOMAIN st.funcs : st.funcs[i].name = raw
  THEN [st EXCEPT !.uniq = @ + 1,
                  !.funcs = Append(@, [name |-> raw \o "." \o ToString(st.uniq + 1),
                                       arity |-> arity])]
  ELSE [st EXCEPT !.funcs = Append(@, [name |-> raw, arity |-> arity])]

(* Results of build: Ok(value), Err(list of messages), or the process      *)
(* ending inside an LLVM call (Abort).                                     *)
Ok(st, v) == [st |-> st, status |-> "Ok", val |-> v, errs |-> << >>]
Err(st, es) == [st |-> st, status |-> "Err", val |-> Undef, errs |-> es]
Abort(st) == [st |-> st, status |-> "Abort", val |-> Undef, errs |-> << >>]

UndeclaredVariable(n) == <<"Variable isn't declared yet", n>>
ImmutableAssignment(n) == <<"Variable is immutable, so it cannot be mutated", n>>
ArityConflict(n) == <<"is called with different parameters", n>>

(***************************************************************************)
(* rhs_vars                                                                *)
(***************************************************************************)
RECURSIVE rhs_vars(_), rhs_vars_seq(_), block_rhs_vars(_), stmts_rhs_vars(_)

rhs_vars(t) ==
  CASE t.tag = "Literal" -> {}
    [] t.tag = "Var" -> {t.name}
    [] t.tag = "Infix" -> rhs_vars(t.left) \cup rhs_vars(t.right)
    [] t.tag = "Call" -> rhs_vars_seq(t.args)
    [] t.tag = "Scope" -> block_rhs_vars(t.block)
    [] t.tag = "While" -> rhs_vars(t.cond) \cup block_rhs_vars(t.body)

rhs_vars_seq(as) ==
  IF as = << >> THEN {} ELSE rhs_vars(Head(as)) \cup rhs_vars_seq(Tail(as))

(* Statement::rhs_vars: every statement kind yields its term's variables *)
stmts_rhs_vars(ss) ==
  IF ss = << >> THEN {}
  ELSE (IF Head(ss).tag = "TermSemicolon" THEN rhs_vars(Head(ss).term)
        ELSE rhs_vars(Head(ss).rhs)) \cup stmts_rhs_vars(Tail(ss))

block_rhs_vars(b) == stmts_rhs_vars(b.stmts) \cup rhs_vars(b.end)

(***************************************************************************)
(* find_funcs: Result<HashSet<&FunctionCall>, String>                      *)
(***************************************************************************)
FOk(s) == [ok |-> TRUE, set |-> s, err |-> << >>]
FErr(e) == [ok |-> FALSE, set |-> {}, err |-> e]

(* try!(a) . union(try!(b)) *)
FUnion(a, b) == IF ~a.ok THEN a ELSE IF ~b.ok THEN b ELSE FOk(a.set \cup b.set)

RECURSIVE find_funcs(_), find_funcs_args(_, _), block_find_funcs(_),
          stmts_find_funcs(_, _)

find_funcs(t) ==
  CASE t.tag \in {"Literal", "Var"} -> FOk({})
    [] t.tag = "Infix" -> FUnion(find_funcs(t.left), find_funcs(t.right))
    [] t.tag = "Call" ->
         LET func_calls == {}
             bool == \E old_call \in func_calls : old_call.name = t.call.name
         IN IF bool THEN FErr(ArityConflict(t.call.name))
            ELSE find_funcs_args(t.args, FOk(func_calls \cup {t.call}))
    [] t.tag = "Scope" -> block_find_funcs(t.block)
    [] t.tag = "While" -> FUnion(find_funcs(t.cond), block_find_funcs(t.body))

find_funcs_args(as, acc) ==
  IF as = << >> \/ ~acc.ok THEN acc
  ELSE find_funcs_args(Tail(as), FUnion(acc, find_funcs(Head(as))))

stmts_find_funcs(ss, acc) ==
  IF ss = << >> \/ ~acc.ok THEN acc
  ELSE stmts_find_funcs(Tail(ss),
         FUnion(acc, IF Head(ss).tag = "TermSemicolon"
                     THEN find_funcs(Head(ss).term)
                     ELSE find_funcs(Head(ss).rhs)))

block_find_funcs(b) ==
  FUnion(stmts_find_funcs(b.stmts, FOk({})), find_funcs(b.end))

(***************************************************************************)
(* Iteration order of a HashMap / HashSet: std's RandomState leaves it     *)
(* unspecified, so it is an input `order` (a sequence listing the keys).   *)
(* Every environment of a run is a clone of the one map new_env made, with *)
(* that map's hasher; where a key stands in the table depends on the       *)
(* other keys, on the order they were inserted in and on the table's size  *)
(* as well, so maps that were filled differently may list the keys they    *)
(* share in different orders, and maps that were filled alike list them    *)
(* alike: a While is given the order of the layout of its map, which the   *)
(* inserts of its phis into a full new_env change for the loops inside it. *)
(***************************************************************************)
Perms(S) ==
  {s \in [1..Cardinality(S) -> S] : \A i, j \in DOMAIN s : i # j => s[i] # s[j]}

InSet(S) == [x \in S |-> TRUE]
KeysInOrder(S, order) ==
  LET m == InSet(S) IN SelectSeq(order, LAMBDA n : n \in DOMAIN m)

(* for (key, pair) in &env { if cond.rhs_vars().contains(key) { .. } }: the *)
(* keys the loop acts on, in the order of env                              *)
PhiKeys(env, cond, ctx) ==
  LET S == (DOMAIN env) \cap rhs_vars(cond)
  IN IF Cardinality(S) < 2 THEN KeysInOrder(S, CHOOSE o \in Perms(S) : TRUE)
     ELSE KeysInOrder(S, ctx.order[Layout(env)])

(***************************************************************************)
(* Compile for Term / Compile for Block: build.                            *)
(* ctx holds what build passes down unchanged (`entry`, the basic block    *)
(* init_module created) and the outcomes the build cannot determine:       *)
(*   order    : HashMap iteration order, for each way a map was filled     *)
(*   lookup   : what LLVMGetNamedFunction reads through the pointer of     *)
(*              to_raw, call after call                                    *)
(*   sext     : what LLVMConstIntGetSExtValue does on a value that is not  *)
(*              a ConstantInt, call after call: the process aborts, or it  *)
(*              returns some number                                        *)
(***************************************************************************)
(* Every recursive call of build goes through this one operator: req.k    *)
(* names the callee (Term::build, Block::build, the statement loop of      *)
(* Block::build, the argument map of Call).                                *)
RECURSIVE build(_)

BuildTerm(t, p, ctx, st, env) ==
  build([k |-> "Term", t |-> t, i |-> 0, p |-> p, ctx |-> ctx, st |-> st, env |-> env,
         acc |-> << >>])
BuildBlock(b, p, ctx, st, env) ==
  build([k |-> "Block", t |-> b, i |-> 0, p |-> p, ctx |-> ctx, st |-> st, env |-> env,
         acc |-> << >>])
BuildStmts(b, i, p, ctx, st, env) ==
  build([k |-> "Stmts", t |-> b, i |-> i, p |-> p, ctx |-> ctx, st |-> st, env |-> env,
         acc |-> << >>])
BuildArgs(as, i, p, ctx, st, env, acc) ==
  build([k |-> "Args", t |-> as, i |-> i, p |-> p, ctx |-> ctx, st |-> st, env |-> env,
         acc |-> acc])

(* let x = v; K(x): v is evaluated once, x is its value *)
Bind(v, K(_)) == CHOOSE y \in {K(x) : x \in {v}} : TRUE
(* let x = try!(r); K(x) *)
Try(r, K(_)) == CHOOSE y \in {IF x.status # "Ok" THEN x ELSE K(x) : x \in {r}} : TRUE

(* Var(ref str) *)
BuildLoad(st, ptr) ==
  Ok([Emit(st, [op |-> "load", id |-> st.next, ptr |-> ptr]) EXCEPT !.next = @ + 1],
     Reg(st.next))

BuildVar(t, st, env) ==
  IF t.name \in DOMAIN env
  THEN IF env[t.name].lev.lev = "Boxed"
       THEN BuildLoad(st, env[t.name].val)
       ELSE Ok(st, env[t.name].val)
  ELSE Err(st, <<UndeclaredVariable(t.name)>>)

(* BuildInfix, were the right operand built whatever the left one          *)
(* returned (C8 tells the two apart)                                       *)
BuildInfixBothOperands(t, p, ctx, st, env) ==
  Bind(BuildTerm(t.left, Append(p, 1), ctx, st, env), LAMBDA left :
  Bind(BuildTerm(t.right, Append(p, 2), ctx, left.st, env), LAMBDA right :
    IF left.status # "Ok" THEN [left EXCEPT !.st = right.st]
    ELSE IF right.status # "Ok" THEN right
    ELSE Bind(BuildBinOp(right.st, t.op, left.val, right.val), LAMBDA b :
           Ok(b.st, b.val))))

(* Infix(ref left, ref op, ref right): the right operand is built against  *)
(* another_env, the clone of env taken before the left operand is built     *)
BuildInfix(t, p, ctx, st, env) ==
  Try(BuildTerm(t.left, Append(p, 1), ctx, st, env), LAMBDA left :
  Try(BuildTerm(t.right, Append(p, 2), ctx, left.st, env), LAMBDA right :
  Bind(BuildBinOp(right.st, t.op, left.val, right.val), LAMBDA b :
    Ok(b.st, b.val))))

(* the fold of lines 214-235: left is the accumulator, right one result *)
FoldArg(left, right) ==
  IF right.status = "Ok"
  THEN (IF left.status = "Ok" THEN [left EXCEPT !.vals = Append(@, right.val)] ELSE left)
  ELSE (IF left.status = "Ok"
        THEN [left EXCEPT !.status = "Err", !.errs = right.errs]
        ELSE [left EXCEPT !.errs = right.errs \o @])

(* args.iter().map(|term| term.build(.., env.clone())).collect(): every     *)
(* argument is built, whatever the earlier ones returned                   *)
ArgsMap(as, i, p, ctx, st, env, acc) ==
  IF i > Len(as) THEN [acc EXCEPT !.st = st]
  ELSE Bind(BuildTerm(as[i], Append(p, i), ctx, st, env), LAMBDA right :
         IF right.status = "Abort"
         THEN [acc EXCEPT !.st = right.st, !.status = "Abort"]
         ELSE BuildArgs(as, i + 1, p, ctx, right.st, env, FoldArg(acc, right)))

(* LLVMGetNamedFunction(module, name), name being what LLVM reads: the     *)
(* function the symbol table holds under these bytes; 0 is null.           *)
GetNamedFunction(st, raw) ==
  IF raw = "" \/ ~(\E i \in DOMAIN st.funcs : st.funcs[i].name = raw) THEN 0
  ELSE CHOOSE i \in DOMAIN st.funcs : st.funcs[i].name = raw

(* LLVMBuildCall(builder, llvm_func, raw_args, func_call.arity, name) *)
BuildCallInstr(st, llvm_func, args, arity) ==
  IF llvm_func = 0 THEN Abort(st)
  ELSE Ok([Emit(st, [op |-> "call", id |-> st.next, fn |-> llvm_func,
                     args |-> args, nargs |-> arity])
            EXCEPT !.next = @ + 1], Reg(st.next))

(* Call(ref func_call, ref args): the callee is looked up first, under the *)
(* bytes LLVM finds behind try!(func_call.name.to_raw())                   *)
BuildCall(t, p, ctx, st, env) ==
  IF ~ToRawOk(t.call.name) THEN Err(st, <<NulError>>)
  ELSE
    Bind(GetNamedFunction(st, ctx.lookup[st.lookups + 1]), LAMBDA llvm_func :
    Bind(BuildArgs(t.args, 1, p, ctx, [st EXCEPT !.lookups = @ + 1], env,
                   [st |-> st, status |-> "Ok", vals |-> << >>, errs |-> << >>]),
         LAMBDA result_args :
      CASE result_args.status = "Abort" -> Abort(result_args.st)
        [] result_args.status = "Err" -> Err(result_args.st, result_args.errs)
        [] OTHER -> BuildCallInstr(result_args.st, llvm_func, result_args.vals,
                                   t.call.arity)))

(* LLVMBuildPhi, then LLVMAddIncoming(phi, [old, phi], [entry, loop_block], 2) *)
PhiIncoming(old, phi, entry, loop_block) ==
  [vals |-> <<old, phi>>, blks |-> <<entry, loop_block>>]

BuildPhi(st, ty, inc) ==
  [Emit(st, [op |-> "phi", id |-> st.next, ty |-> ty,
             vals |-> inc.vals, blks |-> inc.blks])
    EXCEPT !.next = @ + 1]

(* The phi nodes of While, lines 288-316; keys in HashMap iteration order. *)
RECURSIVE BuildPhis(_, _, _, _, _, _)
BuildPhis(keys, ctx, st, env, new_env, loop_block) ==
  IF keys = << >> THEN [st |-> st, status |-> "Ok", env |-> new_env, errs |-> << >>]
  ELSE IF env[Head(keys)].lev.lev = "Boxed"
  THEN BuildPhis(Tail(keys), ctx,
                 BuildPhi(st, "i32*",
                          PhiIncoming(env[Head(keys)].val, Reg(st.next),
                                      ctx.entry, loop_block)),
                 env, EnvInsert(new_env, Head(keys), Reg(st.next), Boxed), loop_block)
  ELSE IF ~ToRawOk(Head(keys))
  THEN [st |-> st, status |-> "Err", env |-> new_env, errs |-> <<NulError>>]
  ELSE BuildPhis(Tail(keys), ctx,
                 BuildPhi(st, "i32",
                          PhiIncoming(new_env[Head(keys)].val, Reg(st.next),
                                      ctx.entry, loop_block)),
                 env,
                 EnvInsert(new_env, Head(keys), Reg(st.next), new_env[Head(keys)].lev),
                 loop_block)

(* BuildCondBr with the two targets exchanged (C7 tells the two apart) *)
BuildCondBrExchanged(st, c, then, else) ==
  Emit(st, [op |-> "condbr", c |-> c, then |-> else, else |-> then])

(* LLVMBuildCondBr(builder, is_zero, after_loop, loop_block) *)
BuildCondBr(st, c, then, else) ==
  Emit(st, [op |-> "condbr", c |-> c, then |-> then, else |-> else])

(* While, lines 286-325: the phis, the body, the condition again, the      *)
(* back edge; the builder ends at after_loop                               *)
WhileLoop(t, p, ctx, st, env, loop_block, after_loop) ==
  Bind(BuildPhis(PhiKeys(env, t.cond, ctx), ctx, st, env, env, loop_block),
       LAMBDA phis :
    IF phis.status # "Ok" THEN Err(phis.st, phis.errs)
    ELSE
      Try(BuildBlock(t.body, Append(p, 2), ctx, phis.st, phis.env), LAMBDA body :
      Try(BuildTerm(t.cond, Append(p, 1), ctx, body.st, phis.env), LAMBDA built_cond :
      Bind(BuildICmpEq(built_cond.st, built_cond.val, LLVMConstInt32(0)),
           LAMBDA is_zero :
        Ok(PositionBuilderAtEnd(
             BuildCondBr(is_zero.st, is_zero.val, after_loop, loop_block),
             after_loop),
           LLVMConstInt32(0))))))

(* While(ref cond, ref block), lines 270-284: the condition, the two       *)
(* blocks, the branch into the loop, the builder moved into loop_block     *)
BuildWhile(t, p, ctx, st, env) ==
  Try(BuildTerm(t.cond, Append(p, 1), ctx, st, env), LAMBDA built_cond :
  Bind(BuildICmpEq(built_cond.st, built_cond.val, LLVMConstInt32(0)), LAMBDA is_zero :
  Bind(AppendBasicBlock(is_zero.st), LAMBDA s1 :
  Bind(AppendBasicBlock(s1), LAMBDA s2 :
    WhileLoop(t, p, ctx,
              PositionBuilderAtEnd(
                BuildCondBr(s2, is_zero.val, Len(s2.blocks), Len(s1.blocks)),
                Len(s1.blocks)),
              env, Len(s1.blocks), Len(s2.blocks))))))

(* Compile for Term: build *)
TermBuild(t, p, ctx, st0, env) ==
  Bind(LogEv(st0, [ev |-> "term", path |-> p, tag |-> t.tag, env |-> env]), LAMBDA st :
  Bind(CASE t.tag = "Literal" -> Ok(st, LLVMConstInt32(t.i))
         [] t.tag = "Infix" -> BuildInfix(t, p, ctx, st, env)
         [] t.tag = "Call" -> BuildCall(t, p, ctx, st, env)
         [] t.tag = "Var" -> BuildVar(t, st, env)
         [] t.tag = "Scope" -> BuildBlock(t.block, Append(p, 1), ctx, st, env)
         [] t.tag = "While" -> BuildWhile(t, p, ctx, st, env),
       LAMBDA r :
    [r EXCEPT !.st = LogEv(r.st, [ev |-> "exit", path |-> p, tag |-> t.tag,
                                  status |-> r.status, errs |-> r.errs,
                                  val |-> r.val])]))

(* LLVMConstIntGetSExtValue(value) as i32: defined on a ConstantInt only.  *)
(* On any other value the cast inside LLVM is unchecked: the process       *)
(* aborts or the call returns a number that is not known, as ctx.sext      *)
(* says for this call.                                                     *)
ConstIntGetSExtValue(value, ctx, st) ==
  IF value.k = "const" THEN [abort |-> FALSE, known |-> TRUE, v |-> value.v, st |-> st]
  ELSE [abort |-> ctx.sext[st.sexts + 1].abort, known |-> FALSE, v |-> 0,
        st |-> [st EXCEPT !.sexts = @ + 1]]

(* Unboxed(content_val) *)
UnboxedOf(content_val) ==
  IF content_val.known THEN Unboxed(content_val.v) ELSE UnboxedAny

(* One statement of Block::build, lines 370-402.  Returns the environment  *)
(* the next statement is given.                                            *)
SOk(st, env) == [st |-> st, status |-> "Ok", env |-> env, errs |-> << >>]
SFail(r, env) == [st |-> r.st, status |-> r.status, env |-> env, errs |-> r.errs]

(* Let(ref lhs, ref rhs) *)
BuildLet(s, p, ctx, st, env) ==
  Bind(BuildTerm(s.rhs, Append(p, 1), ctx, st, env), LAMBDA value :
    IF value.status # "Ok" THEN SFail(value, env)
    ELSE Bind(ConstIntGetSExtValue(value.val, ctx, value.st), LAMBDA content_val :
           IF content_val.abort THEN SFail(Abort(content_val.st), env)
           ELSE SOk(content_val.st,
                    EnvInsert(env, s.lhs, value.val, UnboxedOf(content_val)))))

(* LLVMBuildAlloca(builder, LLVMInt32Type(), lhs) *)
BuildAlloca(st) ==
  [Emit(st, [op |-> "alloca", id |-> st.next]) EXCEPT !.next = @ + 1]

(* LLVMBuildStore(builder, val, ptr) *)
BuildStore(st, val, ptr) == Emit(st, [op |-> "store", val |-> val, ptr |-> ptr])

(* BuildLetMut, were a LetMut of a name already bound Boxed to take over   *)
(* that cell instead of binding the new one (C4 tells the two apart)       *)
BuildLetMutReusingCell(s, p, ctx, st, env) ==
  Bind(BuildTerm(s.rhs, Append(p, 1), ctx, BuildAlloca(st), env),
       LAMBDA built_rhs :
    IF built_rhs.status # "Ok" THEN SFail(built_rhs, env)
    ELSE IF s.lhs \in DOMAIN env /\ env[s.lhs].lev = Boxed
    THEN SOk(BuildStore(built_rhs.st, built_rhs.val, env[s.lhs].val), env)
    ELSE SOk(BuildStore(built_rhs.st, built_rhs.val, Reg(st.next)),
             EnvInsert(env, s.lhs, Reg(st.next), Boxed)))

(* LetMut(ref lhs, ref rhs): the alloca comes first; its handle is st.next *)
BuildLetMut(s, p, ctx, st, env) ==
  Bind(BuildTerm(s.rhs, Append(p, 1), ctx, BuildAlloca(st), env),
       LAMBDA built_rhs :
    IF built_rhs.status # "Ok" THEN SFail(built_rhs, env)
    ELSE SOk(BuildStore(built_rhs.st, built_rhs.val, Reg(st.next)),
             EnvInsert(env, s.lhs, Reg(st.next), Boxed)))

(* Mutate(ref lhs, ref rhs): var_result is computed first and looked at     *)
(* only after rhs was built                                                *)
BuildMutate(s, p, ctx, st, env) ==
  Bind(s.lhs \in DOMAIN env, LAMBDA var_result_ok :
  Bind(BuildTerm(s.rhs, Append(p, 1), ctx, st, env), LAMBDA built_rhs :
    IF built_rhs.status # "Ok" THEN SFail(built_rhs, env)
    ELSE IF ~var_result_ok
    THEN SFail(Err(built_rhs.st, <<UndeclaredVariable(s.lhs)>>), env)
    ELSE IF env[s.lhs].lev.lev = "Boxed"
    THEN SOk(BuildStore(built_rhs.st, built_rhs.val, env[s.lhs].val), env)
    ELSE SFail(Err(built_rhs.st, <<ImmutableAssignment(s.lhs)>>), env)))

(* TermSemicolon(ref term) *)
BuildTermSemicolon(s, p, ctx, st, env) ==
  Bind(BuildTerm(s.term, Append(p, 1), ctx, st, env), LAMBDA v :
    IF v.status # "Ok" THEN SFail(v, env) ELSE SOk(v.st, env))

(* match *stmt *)
BuildStmt(s, p, ctx, st0, env) ==
  Bind(LogEv(st0, [ev |-> "stmt", path |-> p, tag |-> s.tag,
                   lhs |-> IF s.tag = "TermSemicolon" THEN "" ELSE s.lhs,
                   env |-> env]), LAMBDA st :
  Bind(CASE s.tag = "TermSemicolon" -> BuildTermSemicolon(s, p, ctx, st, env)
         [] s.tag = "Let" -> BuildLet(s, p, ctx, st, env)
         [] s.tag = "LetMut" -> BuildLetMut(s, p, ctx, st, env)
         [] s.tag = "Mutate" -> BuildMutate(s, p, ctx, st, env),
       LAMBDA r :
    [r EXCEPT !.st = LogEv(r.st, [ev |-> "exit", path |-> p, tag |-> s.tag,
                                  status |-> r.status, errs |-> r.errs,
                                  val |-> Undef])]))

(* for stmt in self.stmts { ... }; self.end.build(.., *env) *)
StmtsLoop(b, i, p, ctx, st, env) ==
  IF i > Len(b.stmts)
  THEN BuildTerm(b.end, Append(p, 0), ctx,
                 LogEv(st, [ev |-> "end", path |-> p, env |-> env]), env)
  ELSE Bind(BuildStmt(b.stmts[i], Append(p, i), ctx, st, env), LAMBDA r :
         IF r.status # "Ok"
         THEN [st |-> r.st, status |-> r.status, val |-> Undef, errs |-> r.errs]
         ELSE BuildStmts(b, i + 1, p, ctx, r.st, r.env))

(* Compile for Block: build *)
BlockBuild(b, p, ctx, st, env) ==
  Bind(BuildStmts(b, 1, p, ctx, st, env), LAMBDA r :
    [r EXCEPT !.st = LogEv(r.st, [ev |-> "blockexit", path |-> p,
                                  status |-> r.status, errs |-> r.errs])])

Dispatch(req) ==
  CASE req.k = "Term" -> TermBuild(req.t, req.p, req.ctx, req.st, req.env)
    [] req.k = "Block" -> BlockBuild(req.t, req.p, req.ctx, req.st, req.env)
    [] req.k = "Stmts" -> StmtsLoop(req.t, req.i, req.p, req.ctx, req.st, req.env)
    [] req.k = "Args" -> ArgsMap(req.t, req.i, req.p, req.ctx, req.st, req.env, req.acc)

(* the arguments of a call are evaluated once, at the call *)
build(req) == Bind(req, Dispatch)

(***************************************************************************)
(* Syntax of a program: its terms, its blocks.                             *)
(***************************************************************************)
Range(f) == {f[i] : i \in DOMAIN f}

RECURSIVE TermsOf(_), TermsOfBlock(_)
TermsOf(t) ==
  {t} \cup
  CASE t.tag = "Infix" -> TermsOf(t.left) \cup TermsOf(t.right)
    [] t.tag = "Call" -> UNION {TermsOf(t.args[i]) : i \in DOMAIN t.args}
    [] t.tag = "Scope" -> TermsOfBlock(t.block)
    [] t.tag = "While" -> TermsOf(t.cond) \cup TermsOfBlock(t.body)
    [] OTHER -> {}
TermsOfBlock(b) ==
  TermsOf(b.end)
  \cup UNION {TermsOf(IF b.stmts[i].tag = "TermSemicolon" THEN b.stmts[i].term
                      ELSE b.stmts[i].rhs) : i \in DOMAIN b.stmts}

(* the names the conditions of the loops of a program read *)
CondVars(prog) ==
  UNION {rhs_vars(t.cond) : t \in {u \in TermsOfBlock(prog) : u.tag = "While"}}

(* the layouts of the maps that hold two keys of the condition of a While  *)
(* they can be given to, the term or the block being built against a map   *)
(* of the layout h: Infix, Call, Scope and While hand clones of their map  *)
(* down, Let and LetMut insert their name, While inserts the names of its  *)
(* phis into the clone that its body and the second build of its condition *)
(* are given                                                               *)
RECURSIVE while_maps_term(_, _), while_maps_seq(_, _), while_maps_stmts(_, _, _)

while_maps_term(t, h) ==
  CASE t.tag = "Infix" -> while_maps_term(t.left, h) \cup while_maps_term(t.right, h)
    [] t.tag = "Call" -> while_maps_seq(t.args, h)
    [] t.tag = "Scope" -> while_maps_stmts(t.block, 1, h)
    [] t.tag = "While" ->
         LET S == Range(h.keys) \cap rhs_vars(t.cond)
             new_env == IF S = {} THEN h ELSE LayoutInsert(h, CHOOSE k \in S : TRUE)
         IN (IF Cardinality(S) > 1 THEN {h} ELSE {})
            \cup while_maps_term(t.cond, h) \cup while_maps_term(t.cond, new_env)
            \cup while_maps_stmts(t.body, 1, new_env)
    [] OTHER -> {}

while_maps_seq(as, h) ==
  IF as = << >> THEN {} ELSE while_maps_term(Head(as), h) \cup while_maps_seq(Tail(as), h)

while_maps_stmts(b, i, h) ==
  IF i > Len(b.stmts) THEN while_maps_term(b.end, h)
  ELSE while_maps_term(IF b.stmts[i].tag = "TermSemicolon" THEN b.stmts[i].term
                       ELSE b.stmts[i].rhs, h)
       \cup while_maps_stmts(b, i + 1,
                             IF b.stmts[i].tag \in {"Let", "LetMut"}
                             THEN LayoutInsert(h, b.stmts[i].lhs) ELSE h)

(***************************************************************************)
(* The node kinds a program holds.                                         *)
(***************************************************************************)
RECURSIVE tags_term(_), tags_seq(_), tags_block(_), tags_stmts(_)

tags_term(t) ==
  {t.tag} \cup
  CASE t.tag = "Infix" -> tags_term(t.left) \cup tags_term(t.right)
    [] t.tag = "Call" -> tags_seq(t.args)
    [] t.tag = "Scope" -> tags_block(t.block)
    [] t.tag = "While" -> tags_term(t.cond) \cup tags_block(t.body)
    [] OTHER -> {}

tags_seq(as) == IF as = << >> THEN {} ELSE tags_term(Head(as)) \cup tags_seq(Tail(as))

tags_stmts(ss) ==
  IF ss = << >> THEN {}
  ELSE {Head(ss).tag}
       \cup (IF Head(ss).tag = "TermSemicolon" THEN tags_term(Head(ss).term)
             ELSE tags_term(Head(ss).rhs))
       \cup tags_stmts(Tail(ss))

tags_block(b) == tags_stmts(b.stmts) \cup tags_term(b.end)

(* a Let of a literal hands LLVMConstIntGetSExtValue a ConstantInt *)
Kind(s) == IF s.tag = "Let" /\ s.rhs.tag = "Literal" THEN "LetLiteral" ELSE s.tag

(* how many times a build can reach a node of the kind `tag`: a While      *)
(* builds its condition twice                                              *)
RECURSIVE reach_term(_, _), reach_seq(_, _), reach_block(_, _), reach_stmts(_, _)

reach_term(tag, t) ==
  (IF t.tag = tag THEN 1 ELSE 0) +
  CASE t.tag = "Infix" -> reach_term(tag, t.left) + reach_term(tag, t.right)
    [] t.tag = "Call" -> reach_seq(tag, t.args)
    [] t.tag = "Scope" -> reach_block(tag, t.block)
    [] t.tag = "While" -> 2 * reach_term(tag, t.cond) + reach_block(tag, t.body)
    [] OTHER -> 0

reach_seq(tag, as) ==
  IF as = << >> THEN 0 ELSE reach_term(tag, Head(as)) + reach_seq(tag, Tail(as))

reach_stmts(tag, ss) ==
  IF ss = << >> THEN 0
  ELSE (IF Kind(Head(ss)) = tag THEN 1 ELSE 0)
       + (IF Head(ss).tag = "TermSemicolon" THEN reach_term(tag, Head(ss).term)
          ELSE reach_term(tag, Head(ss).rhs))
       + reach_stmts(tag, Tail(ss))

reach_block(tag, b) == reach_stmts(tag, b.stmts) + reach_term(tag, b.end)

(* what LLVMConstIntGetSExtValue may do on a value that is no ConstantInt *)
SextOutcomes == {[abort |-> TRUE], [abort |-> FALSE]}

(* nothing is called after the call that aborts *)
SextReads(n) ==
  {x \in [1..n -> SextOutcomes] : \A i \in 1..n : \A j \in i..n : x[i].abort => x[j].abort}

(* a read that is no name of the symbol table finds no function, whatever  *)
(* its bytes: the empty string stands for every such read                  *)
LookupReads(st) ==
  {""} \cup {raw \in Freed(Len(st.funcs)) : \E i \in DOMAIN st.funcs : st.funcs[i].name = raw}

(* the outcomes init_module cannot determine, one for every call that can  *)
(* need it: the order of the keys for every map that two phis can come     *)
(* from, a read for every lookup, an outcome for every call of             *)
(* LLVMConstIntGetSExtValue on what may be no ConstantInt                  *)
Oracles(prog, st) ==
  {[entry |-> 1, order |-> o, lookup |-> l, sext |-> x] :
     o \in [while_maps_stmts(prog, 1, NoLayout) -> Perms(CondVars(prog))],
     l \in [1..reach_block("Call", prog) -> LookupReads(st)],
     x \in SextReads(reach_block("Let", prog))}

(***************************************************************************)
(* decl_funcs: for func in funcs { LLVMAddFunction(module, name, func_ty) } *)
(* in the HashSet's iteration order; try! returns at the first name that   *)
(* to_raw rejects, the earlier functions staying declared.  raws lists     *)
(* what LLVMAddFunction reads through the pointer of to_raw, one read for  *)
(* each function.  Of func_ty the model keeps the parameter count          *)
(* func.arity; the parameter types are read through the pointer of a       *)
(* vector dropped at the end of line 84 and are not part of the model.     *)
(***************************************************************************)
RECURSIVE DeclLoop(_, _, _)
DeclLoop(fs, raws, st) ==
  IF fs = << >> THEN [st |-> st, ok |-> TRUE, err |-> << >>]
  ELSE IF ~ToRawOk(Head(fs).name) THEN [st |-> st, ok |-> FALSE, err |-> NulError]
  ELSE DeclLoop(Tail(fs), Tail(raws), AddFunction(st, Head(raws), Head(fs).arity))

decl_funcs(prog, st, order, raws) ==
  LET funcs == block_find_funcs(prog)
  IN IF ~funcs.ok THEN [st |-> st, ok |-> FALSE, err |-> funcs.err]
     ELSE DeclLoop(order, raws, st)

(* init_module *)
init_module(prog, st, ctx) ==
  Bind(AppendBasicBlock(st), LAMBDA s1 :
  Bind(BuildBlock(prog, << >>, [ctx EXCEPT !.entry = Len(s1.blocks)],
                  PositionBuilderAtEnd(s1, Len(s1.blocks)), EmptyEnv), LAMBDA r :
    IF r.status = "Ok"
    THEN [r EXCEPT !.st = Emit(r.st, [op |-> "ret", val |-> r.val])]
    ELSE r))

(***************************************************************************)
(* Execution of the generated "main".                                      *)
(***************************************************************************)
MaxSteps == 60

IntV(v) == [k |-> "int", v |-> v]
PtrV(a) == [k |-> "ptr", v |-> a]
UndefV == [k |-> "undef", v |-> 0]

NotRunning == [status |-> "idle", blk |-> 0, ip |-> 0, regs |-> << >>, mem |-> << >>,
               ret |-> UndefV, steps |-> 0, stores |-> << >>]

(* What LLVM's verifier asks of the modules the compiler builds: a phi has *)
(* one incoming block for each block that branches to its own, and a call  *)
(* passes as many arguments as its callee has parameters.                  *)
PredsOf(st, b) ==
  {p \in DOMAIN st.blocks :
     \E i \in DOMAIN st.blocks[p].instrs :
       /\ st.blocks[p].instrs[i].op = "condbr"
       /\ b \in {st.blocks[p].instrs[i].then, st.blocks[p].instrs[i].else}}

Verifies(st) ==
  \A b \in DOMAIN st.blocks : \A i \in DOMAIN st.blocks[b].instrs :
    LET ins == st.blocks[b].instrs[i]
    IN /\ ins.op = "phi" =>
            /\ ins.blks[1] # ins.blks[2]
            /\ {ins.blks[1], ins.blks[2]} = PredsOf(st, b)
       /\ ins.op = "call" => Len(ins.args) = st.funcs[ins.fn].arity

(* a call of a function with parameters is checked against the parameter   *)
(* types LLVMFunctionType read through the pointer of the dropped vector   *)
ParamTypesRead(st) ==
  \E b \in DOMAIN st.blocks : \E i \in DOMAIN st.blocks[b].instrs :
    /\ st.blocks[b].instrs[i].op = "call"
    /\ st.funcs[st.blocks[b].instrs[i].fn].arity > 0

(* the engine ended the process before "main" ran *)
Rejected == [NotRunning EXCEPT !.status = "rejected"]

StartExec(st) ==
  [status |-> "running", blk |-> 1, ip |-> 1,
   regs |-> [i \in 1..(st.next - 1) |-> UndefV],
   mem |-> << >>, ret |-> UndefV, steps |-> 0,
   stores |-> [b \in 1..Len(st.blocks) |-> 0]]

(* The run of a module: the interpreter runs what it is given; the JIT     *)
(* ends the process on a module the verifier rejects.                      *)
RunStarts(st) ==
  {StartExec(st)}
  \cup (IF Verifies(st) /\ ~ParamTypesRead(st) THEN {} ELSE {Rejected})

Operand(e, x) ==
  CASE x.k = "const" -> IntV(x.v)
    [] x.k = "undef" -> UndefV
    [] x.k = "reg" -> e.regs[x.v]

ExecBin(o, a, b) ==
  CASE o = "Add" -> IntV(AddWrap(a, b))
    [] o = "Sub" -> IntV(SubWrap(a, b))
    [] o = "Mul" -> IntV(MulWrap(a, b))
    [] o = "Div" -> IntV(SDivTrunc(a, b))

(* the phis at the head of block b, entered from block pred: all read the  *)
(* registers as they were before the jump                                  *)
PhiCount(st, b) ==
  LET is == st.blocks[b].instrs
  IN Cardinality({i \in DOMAIN is : is[i].op = "phi"})

EnterBlock(st, e, b) ==
  LET is == st.blocks[b].instrs
      n == PhiCount(st, b)
      pred == e.blk
      incoming(i) == {j \in 1..2 : is[i].blks[j] = pred}
  IN IF \E i \in 1..n : incoming(i) = {}
     THEN [e EXCEPT !.status = "invalid"]
     ELSE [e EXCEPT !.blk = b, !.ip = n + 1,
                    !.regs = [r \in DOMAIN e.regs |->
                                IF \E i \in 1..n : is[i].id = r
                                THEN LET i == CHOOSE i \in 1..n : is[i].id = r
                                         j == CHOOSE j \in incoming(i) : TRUE
                                     IN Operand(e, is[i].vals[j])
                                ELSE e.regs[r]]]

ExecInstr(st, e0) ==
  LET e == [e0 EXCEPT !.steps = @ + 1]
      is == st.blocks[e.blk].instrs
  IN IF e.ip > Len(is) THEN [e EXCEPT !.status = "invalid"]
     ELSE
       LET ins == is[e.ip]
           nxt == [e EXCEPT !.ip = @ + 1]
       IN CASE ins.op = "alloca" ->
                 [nxt EXCEPT !.mem = Append(@, UndefV),
                             !.regs[ins.id] = PtrV(Len(e.mem) + 1)]
            [] ins.op = "store" ->
                 LET p == Operand(e, ins.ptr)
                 IN IF p.k # "ptr" THEN [e EXCEPT !.status = "ub"]
                    ELSE [nxt EXCEPT !.mem[p.v] = Operand(e, ins.val),
                                     !.stores[e.blk] = @ + 1]
            [] ins.op = "load" ->
                 LET p == Operand(e, ins.ptr)
                 IN IF p.k # "ptr" THEN [e EXCEPT !.status = "ub"]
                    ELSE [nxt EXCEPT !.regs[ins.id] = e.mem[p.v]]
            [] ins.op = "bin" ->
                 LET a == Operand(e, ins.l)
                     b == Operand(e, ins.r)
                 IN IF ins.o = "Div" /\ (b.k # "int" \/ b.v = 0)
                    THEN [e EXCEPT !.status = "ub"]
                    ELSE IF a.k # "int" \/ b.k # "int"
                    THEN [nxt EXCEPT !.regs[ins.id] = UndefV]
                    ELSE IF ins.o = "Div" /\ DivUndefined(a.v, b.v)
                    THEN [e EXCEPT !.status = "ub"]
                    ELSE [nxt EXCEPT !.regs[ins.id] = ExecBin(ins.o, a.v, b.v)]
            [] ins.op = "icmp" ->
                 LET a == Operand(e, ins.l)
                     b == Operand(e, ins.r)
                 IN IF a.k # "int" \/ b.k # "int"
                    THEN [nxt EXCEPT !.regs[ins.id] = UndefV]
                    ELSE [nxt EXCEPT !.regs[ins.id] = IntV(IF a.v = b.v THEN 1 ELSE 0)]
            [] ins.op = "condbr" ->
                 LET c == Operand(e, ins.c)
                 IN IF c.k # "int" THEN [e EXCEPT !.status = "ub"]
                    ELSE EnterBlock(st, e, IF c.v = 1 THEN ins.then ELSE ins.else)
            [] ins.op = "call" -> [e EXCEPT !.status = "extern"]
            [] ins.op = "phi" -> [e EXCEPT !.status = "invalid"]
            [] ins.op = "ret" ->
                 [e EXCEPT !.status = "returned", !.ret = Operand(e, ins.val)]

(***************************************************************************)
(* gen_module, position by position.                                       *)
(***************************************************************************)
NoResult == [status |-> "None", errs |-> << >>]

(* lines 123-128: the module, "main" under the name LLVMAddFunction reads   *)
(* behind try!("main".to_raw()), the builder                               *)
CreateModule ==
  /\ pc = "gen_module"
  /\ \E raw \in {r \in Freed(1) : FirstUse(NoModule, <<r>>)} :
       llvm' = AddFunction(NoModule, raw, 0)
  /\ pc' = "decl_funcs"
  /\ UNCHANGED <<program, result, ex>>

(* line 129: try!(self.decl_funcs(module).map_err(|err| vec![err])) *)
DeclFuncs ==
  /\ pc = "decl_funcs"
  /\ \E order \in Perms(block_find_funcs(program).set) :
     \E raws \in {r \in [1..Len(order) -> Freed(Len(llvm.funcs) + Len(order))] :
                   FirstUse(llvm, r)} :
       LET d == decl_funcs(program, llvm, order, raws)
       IN /\ llvm' = d.st
          /\ IF d.ok
             THEN pc' = "init_module" /\ result' = result
             ELSE pc' = "done" /\ result' = [status |-> "Err", errs |-> <<d.err>>]
  /\ UNCHANGED <<program, ex>>

(* lines 130-131: try!(self.init_module(module, func, builder)); Ok(module) *)
InitModule ==
  /\ pc = "init_module"
  /\ \E ctx \in Oracles(program, llvm) :
       LET r == init_module(program, llvm, ctx)
       IN /\ llvm' = r.st
          /\ result' = [status |-> r.status, errs |-> r.errs]
          /\ ex' \in IF r.status = "Ok" THEN RunStarts(r.st) ELSE {ex}
  /\ pc' = "done"
  /\ UNCHANGED program

(* one instruction of "main" *)
ExecStep ==
  /\ pc = "done"
  /\ result.status = "Ok"
  /\ ex.status = "running"
  /\ ex.steps < MaxSteps
  /\ ex' = ExecInstr(llvm, ex)
  /\ UNCHANGED <<program, pc, llvm, result>>

Next == CreateModule \/ DeclFuncs \/ InitModule \/ ExecStep

(***************************************************************************)
(* The programs gen_module is run on.                                      *)
(***************************************************************************)
InitWith(P) ==
  /\ program \in P
  /\ pc = "gen_module"
  /\ llvm = NoModule
  /\ result = NoResult
  /\ ex = NotRunning

X == "x"
Y == "y"
Z == "z"
(* never bound by any program of the model *)
W == "w"

Ops == {"Add", "Sub", "Mul", "Div"}

(* bounds of the program families *)
MaxLit == 2
MaxN == 5
MaxArity == 2

SmallLits == {Literal(i) : i \in (-MaxLit)..MaxLit}
EdgeLits == {Literal(i) : i \in {-7, MaxInt32, MinInt32}}

(* let mut x = n; while x { x = x - 1; e } *)
Countdown(n, e) ==
  Block(<<LetMut(X, Literal(n))>>,
        While(Var(X), Block(<<Mutate(X, Infix(Var(X), "Sub", Literal(1)))>>, e)))

CountdownPrograms == {Countdown(n, e) : n \in 0..MaxN, e \in {Literal(0), Var(X)}}

(* the same callee at two call sites, in every position find_funcs visits *)
Args(n) == [i \in 1..n |-> Literal(i)]
FCalls == {Call("f", Args(n)) : n \in 0..MaxArity}
CallSites == FCalls \cup {Call("g", Args(1)), Call("g_nul", Args(0))}

(* three callees: the names of four functions *)
ThreeCallees ==
  Block(<< >>, Infix(Infix(Call("f", Args(0)), "Add", Call("g", Args(1))),
                     "Add", Call("h", Args(0))))

ArityPrograms ==
  {ThreeCallees} \cup
  UNION {{Block(<< >>, Infix(c1, "Add", c2)),
          Block(<< >>, Call("f", <<c2>>)),
          Block(<<TermSemicolon(c1)>>, c2),
          Block(<<LetMut(X, c1)>>, Scope(Block(<<Mutate(X, c2)>>, Var(X)))),
          Block(<< >>, While(c1, Block(<< >>, c2)))}
         : c1 \in FCalls, c2 \in CallSites}

(* Mutate on an unbound, a Let-bound and a LetMut-bound name *)
MutatePreludes == {<< >>, <<Let(X, Literal(1))>>, <<LetMut(X, Literal(1))>>,
                   <<LetMut(Y, Literal(1))>>}
MutateRhs == {Literal(2), Var(X), Var(Y), Var(Z), Infix(Var(Y), "Add", Literal(1)),
              Call("f", << >>), Infix(Literal(1), "Div", Literal(0))}

MutatePrograms ==
  {Block(pre \o <<Mutate(X, rhs)>>, e)
     : pre \in MutatePreludes, rhs \in MutateRhs, e \in {Literal(0), Var(X)}}

(* Let with constant and non-constant right-hand sides *)
LetRhs == SmallLits
          \cup {Var(Y), Call("f", << >>), Infix(Var(Y), "Add", Literal(1)),
                Infix(Literal(1), "Add", Literal(2)),
                Infix(Call("f", << >>), "Mul", Literal(2)),
                Scope(Block(<< >>, Var(Y)))}

LetPrograms ==
  {Block(<<LetMut(Y, Literal(1)), Let(X, rhs)>>, e)
     : rhs \in LetRhs, e \in {Literal(0), Var(X), Infix(Var(X), "Add", Var(Y))}}

(* Scope: bindings and mutations inside, uses of the outer names after *)
ScopeOuter == {<<Let(X, Literal(1))>>, <<LetMut(X, Literal(1))>>,
               <<LetMut(X, Literal(1)), Let(Y, Literal(2))>>}
ScopeInnerStmts ==
  {<<Let(X, Literal(5))>>,
   <<LetMut(X, Literal(5))>>,
   <<LetMut(X, Literal(5)), Mutate(X, Literal(7))>>,
   <<LetMut(X, Literal(5)), Mutate(X, Infix(Var(X), "Add", Literal(1)))>>,
   <<LetMut(Y, Var(X)), Mutate(Y, Literal(7))>>,
   <<Let(Y, Literal(5)), LetMut(X, Var(Y)), Mutate(X, Literal(7))>>,
   <<Mutate(X, Literal(7))>>,
   <<TermSemicolon(Scope(Block(<<LetMut(X, Literal(6)), Mutate(X, Literal(8))>>, Var(X))))>>}
ScopeTerms == {Scope(Block(ss, e)) : ss \in ScopeInnerStmts, e \in {Var(X), Literal(0)}}

ScopePrograms ==
  UNION {{Block(o \o <<TermSemicolon(sc)>>, Var(X)),
          Block(o \o <<Let(Y, sc)>>, Var(X)),
          Block(o \o <<LetMut(Y, sc), Mutate(Y, Literal(9))>>, Infix(Var(X), "Add", Var(Y))),
          Block(o, Infix(sc, "Add", Var(X)))}
         : o \in ScopeOuter, sc \in ScopeTerms}

(* Literal, Infix, Var, Let and Scope only *)
ArithLits == SmallLits \cup EdgeLits
ArithAtoms == ArithLits \cup {Var(X), Var(Y)}

ArithPrograms ==
  {Block(<<Let(X, a)>>, Infix(Var(X), o, b)) : a \in ArithLits, o \in Ops, b \in ArithAtoms}
  \cup {Block(<<Let(X, Infix(a, o, b))>>, Var(X)) : a \in ArithLits, o \in Ops, b \in ArithLits}
  \cup {Block(<<Let(X, a), TermSemicolon(Scope(Block(<<Let(X, b)>>, Var(X))))>>,
              Infix(Var(X), o, Scope(Block(<<Let(Y, b)>>, Infix(Var(X), "Sub", Var(Y))))))
          : a \in SmallLits, b \in EdgeLits, o \in Ops}
  \cup {Block(<<Let(X, a), Let(Y, Infix(Var(X), o, Literal(2))), Let(X, b)>>,
              Infix(Var(Y), "Mul", Var(X)))
          : a \in ArithLits, b \in SmallLits, o \in Ops}
  \cup {Block(<<Let(X, a), TermSemicolon(Scope(Block(<<Let(Y, a)>>, Var(Y))))>>, e)
          : a \in SmallLits, e \in {Var(Y), Infix(Var(X), "Add", Var(Y)), Var(X)}}
  \cup {Block(<<Let(X, a)>>,
              Infix(Scope(Block(<<Let(X, b)>>, Infix(Var(X), o, Literal(2)))), "Sub", Var(X)))
          : a \in SmallLits, b \in ArithLits, o \in Ops}
  \cup {Block(<<Let(X, a)>>, Scope(Block(<<Let(Y, Infix(Var(X), o, Var(X)))>>, e)))
          : a \in SmallLits, o \in Ops, e \in {Var(Y), Var(X), Var(Z)}}

(* loops: one loop, a loop after a loop, a loop in a body, a loop in a    *)
(* condition; the condition's variables Boxed and Unboxed; bodies that     *)
(* mutate, rebind or leave the condition's variables                       *)
LoopPreludes == {<<LetMut(X, Literal(1))>>, <<Let(X, Literal(1))>>,
                 <<LetMut(X, Literal(1)), Let(Y, Literal(0))>>,
                 <<Let(X, Literal(0)), LetMut(Y, Literal(1))>>}
LoopConds == {Var(X), Infix(Var(X), "Mul", Var(Y)), Literal(0)}
LoopBodies ==
  {Block(<< >>, Literal(0)),
   Block(<<Mutate(X, Literal(0))>>, Var(X)),
   Block(<<Let(X, Literal(0))>>, Var(X)),
   Block(<<LetMut(X, Literal(0))>>, Literal(0)),
   Block(<<LetMut(Z, Literal(0)), Mutate(Y, Literal(0))>>, Literal(0))}
SimpleLoops == {While(c, b) : c \in LoopConds, b \in LoopBodies}
InnerLoop == While(Var(X), Block(<<Mutate(X, Literal(0))>>, Literal(0)))

LoopPrograms ==
  UNION {{Block(pre, l),
          Block(pre \o <<TermSemicolon(InnerLoop)>>, l),
          Block(pre \o <<TermSemicolon(l)>>, InnerLoop),
          Block(pre, While(Var(X), Block(<<TermSemicolon(l)>>, Literal(0)))),
          Block(pre, While(Scope(Block(<<TermSemicolon(InnerLoop)>>, Var(X))), l.body)),
          Block(pre, Infix(l, "Add", Call("f", <<l>>)))}
         : pre \in LoopPreludes, l \in SimpleLoops}

(* loops over the same two names in maps that were filled in different    *)
(* orders: one Scope after the other, and the condition and the body of a  *)
(* loop                                                                    *)
LoopOver(tag, a, b) ==
  Scope(Block(<<[tag |-> tag, lhs |-> a, rhs |-> Literal(0)],
                [tag |-> tag, lhs |-> b, rhs |-> Literal(0)],
                TermSemicolon(While(Infix(Var(X), "Mul", Var(Y)),
                                    Block(<< >>, Literal(0))))>>,
              Literal(0)))

(* a loop in a loop over two of the three names of a full table, the      *)
(* third one bound once or twice                                           *)
LoopInLoop(tag, pre) ==
  Block(<<[tag |-> tag, lhs |-> X, rhs |-> Literal(0)],
          [tag |-> tag, lhs |-> Y, rhs |-> Literal(0)],
          [tag |-> tag, lhs |-> Z, rhs |-> Literal(0)]>> \o pre,
        While(Infix(Var(X), "Mul", Var(Y)),
              Block(<<TermSemicolon(While(Infix(Var(X), "Mul", Var(Y)),
                                          Block(<< >>, Literal(0))))>>,
                    Literal(0))))

(* the same loops over two of the n names of a map *)
Key(i) == IF i = 1 THEN X ELSE IF i = 2 THEN Y ELSE "v" \o ToString(i)
Many(n) ==
  Block([i \in 1..n |-> Let(Key(i), Literal(0))],
        While(Infix(Var(X), "Mul", Var(Y)),
              Block(<<TermSemicolon(While(Infix(Var(X), "Mul", Var(Y)),
                                          Block(<< >>, Literal(0))))>>,
                    Literal(0))))

OrderPrograms ==
  {LoopInLoop(tag, pre) : tag \in {"Let", "LetMut"},
                          pre \in {<< >>, <<LetMut(Z, Literal(1))>>}} \cup
  {Many(n) : n \in {6, 7, 56}} \cup
  UNION {{Block(<<TermSemicolon(LoopOver(tag, X, Y)), TermSemicolon(LoopOver(tag, Y, X))>>,
                Literal(0)),
          Block(<< >>, While(LoopOver(tag, X, Y),
                             Block(<<TermSemicolon(LoopOver(tag, Y, X))>>, Literal(0))))}
         : tag \in {"Let", "LetMut"}}

(* a division that "main" executes, by the cell's value, by zero and by    *)
(* the undef that folding 1 / 0 leaves                                     *)
OneByZero == Infix(Literal(1), "Div", Literal(0))
DivPrograms ==
  {Block(<<LetMut(X, Literal(n))>>, Infix(a, "Div", b))
     : n \in {0, 2}, a \in {Var(X), Literal(6), OneByZero}, b \in {Var(X), OneByZero}}

(* failing subterms at every position of every parent *)
Fails == {Var(Z), Var(W)}
Fine == {Literal(1), Var(X)}
Sub2 == (Fails \cup Fine) \X (Fails \cup Fine)

FailPrograms ==
  UNION {{Block(<<LetMut(X, Literal(1))>>, Infix(a[1], "Add", a[2])),
          Block(<<LetMut(X, Literal(1))>>, Call("f", <<a[1], a[2]>>)),
          Block(<<LetMut(X, Literal(1))>>, Call("f", <<a[1], Literal(0), a[2]>>)),
          Block(<<LetMut(X, Literal(1))>>, Call("f", <<Infix(a[1], "Add", a[2]), a[2]>>)),
          Block(<<LetMut(X, Literal(1))>>,
                Infix(Call("f", <<a[1], a[2]>>), "Add", Call("g", <<a[2]>>))),
          Block(<<LetMut(X, Literal(1)), TermSemicolon(a[1])>>, a[2]),
          Block(<<LetMut(X, Literal(1)), Let(Y, a[1]), LetMut(Y, a[2])>>, Literal(0)),
          Block(<<LetMut(X, a[1]), Mutate(X, a[2])>>, Literal(0)),
          Block(<<LetMut(X, Literal(1))>>, While(a[1], Block(<< >>, a[2]))),
          Block(<<LetMut(X, Literal(1))>>,
                While(Var(X), Block(<<Mutate(X, a[1])>>, a[2]))),
          Block(<<LetMut(X, Literal(1))>>, Scope(Block(<<TermSemicolon(a[1])>>, a[2]))),
          Block(<<TermSemicolon(a[1])>>, Call("g_nul", <<a[2]>>))}
         : a \in Sub2}

Programs == CountdownPrograms \cup ArityPrograms \cup MutatePrograms \cup LetPrograms
            \cup ScopePrograms \cup ArithPrograms \cup LoopPrograms \cup OrderPrograms
            \cup DivPrograms \cup FailPrograms

Init == InitWith(Programs)
Spec == Init /\ [][Next]_vars

CountdownInit == InitWith(CountdownPrograms)
SpecCountdown == CountdownInit /\ [][Next]_vars /\ WF_vars(Next)

(***************************************************************************)
(* The call sites of a program.                                            *)
(***************************************************************************)
CallSitesOf(prog) == {t.call : t \in {u \in TermsOfBlock(prog) : u.tag = "Call"}}

(* the callee names used with two different argument counts *)
ConflictingCallees(prog) ==
  {c.name : c \in {d \in CallSitesOf(prog) :
                     \E e \in CallSitesOf(prog) : e.name = d.name /\ e.arity # d.arity}}

Declared == {llvm.funcs[i] : i \in 2..Len(llvm.funcs)}
Instructions == UNION {Range(llvm.blocks[b].instrs) : b \in DOMAIN llvm.blocks}

(***************************************************************************)
(* C1: a program that calls one name with two different argument counts    *)
(* fails with the arity-conflict error for such a name, and does so before *)
(* any callee is declared in the module and before any block or            *)
(* instruction of "main" exists.                                           *)
(***************************************************************************)
C1_ArityConflictBeforeAnyIR ==
  ConflictingCallees(program) # {} =>
    /\ Declared = {}
    /\ llvm.blocks = << >>
    /\ pc \notin {"gen_module", "decl_funcs"} =>
         /\ pc = "done"
         /\ result.status = "Err"
         /\ \E n \in ConflictingCallees(program) : ArityConflict(n) \in Range(result.errs)

(***************************************************************************)
(* The control-flow graph of "main" after a build.                         *)
(***************************************************************************)
BuiltOk == pc = "done" /\ result.status = "Ok" /\ ex.steps = 0

PhisOf(b) == {ins \in Range(llvm.blocks[b].instrs) : ins.op = "phi"}

(* the blocks holding a conditional branch one of whose targets is b *)
Preds(b) ==
  {a \in DOMAIN llvm.blocks :
     \E ins \in Range(llvm.blocks[a].instrs) :
       ins.op = "condbr" /\ (ins.then = b \/ ins.else = b)}

(***************************************************************************)
(* C2: in every module of a successful lowering, every phi of a loop block *)
(* has exactly two incoming edges, and their source blocks are exactly the *)
(* blocks that branch to the loop block: the preheader, which ends with    *)
(* the branch entering the loop, and the latch, which ends with the back   *)
(* edge.                                                                   *)
(***************************************************************************)
C2_PhiEdgesArePreheaderAndLatch ==
  BuiltOk =>
    \A b \in DOMAIN llvm.blocks : \A phi \in PhisOf(b) :
      /\ Len(phi.blks) = 2
      /\ Cardinality(Preds(b)) = 2
      /\ Range(phi.blks) = Preds(b)

(***************************************************************************)
(* The record of a build: llvm.log holds, in order, one event when the     *)
(* build of a term or statement starts (with the environment it is given)  *)
(* and one when it returns.                                                *)
(***************************************************************************)
Built == pc = "done" /\ ex.steps = 0
Log == llvm.log
Events(kind) == {i \in DOMAIN Log : Log[i].ev = kind}

(* the return of the build that started at event i *)
ExitOf(i) ==
  Log[CHOOSE j \in Events("exit") :
        /\ j > i
        /\ Log[j].path = Log[i].path
        /\ \A k \in Events("exit") : (k > i /\ Log[k].path = Log[i].path) => j <= k]

MutateStarts == {i \in Events("stmt") : Log[i].tag = "Mutate"}
Unbound(i) == Log[i].lhs \notin DOMAIN Log[i].env
BoundAs(i, lev) == ~Unbound(i) /\ Log[i].env[Log[i].lhs].lev.lev = lev

(***************************************************************************)
(* C3: a Mutate of a name without a binding fails with the                 *)
(* undeclared-variable error for that name, a Mutate of an Unboxed name    *)
(* fails with the immutable-assignment error for that name; this is the    *)
(* one error reported whatever the right-hand side is, and the right-hand  *)
(* side is not lowered.                                                    *)
(***************************************************************************)
C3_MutateNameCheckedFirst ==
  Built =>
    \A i \in MutateStarts :
      (Unbound(i) \/ BoundAs(i, "Unboxed")) =>
        /\ Log[i + 1].ev = "exit"
        /\ ExitOf(i).status = "Err"
        /\ ExitOf(i).errs = <<IF Unbound(i) THEN UndeclaredVariable(Log[i].lhs)
                               ELSE ImmutableAssignment(Log[i].lhs)>>

Front(s) == SubSeq(s, 1, Len(s) - 1)
Last(s) == s[Len(s)]
IsPrefix(p, q) == Len(p) <= Len(q) /\ SubSeq(q, 1, Len(p)) = p
Min(S) == CHOOSE x \in S : \A y \in S : x <= y

ExitIdx(i) == Min({j \in Events("exit") : j > i /\ Log[j].path = Log[i].path})

(* what the enclosing block lowers after the statement that started at i:  *)
(* its next statement, or its end term                                     *)
AfterInBlock(i) ==
  {k \in DOMAIN Log :
     /\ k > ExitIdx(i)
     /\ \/ Log[k].ev = "stmt" /\ Log[k].path = Append(Front(Log[i].path), Last(Log[i].path) + 1)
        \/ Log[k].ev = "end" /\ Log[k].path = Front(Log[i].path)}
NextInBlock(i) == Log[Min(AfterInBlock(i))]

EnvAgreesExcept(E1, E2, excl) ==
  \A n \in (DOMAIN E1 \cup DOMAIN E2) \ excl :
    n \in DOMAIN E1 /\ n \in DOMAIN E2 /\ E1[n] = E2[n]

ScopeStarts == {i \in Events("term") : Log[i].tag = "Scope"}
Inside(m, i) == i < m /\ m < ExitIdx(i) /\ IsPrefix(Log[i].path, Log[m].path)
OwnBinding(i) == IF Log[i].tag \in {"Let", "LetMut"} THEN {Log[i].lhs} ELSE {}

(* statements lowered with success whose term holds a Scope *)
StmtsWithScope ==
  {i \in Events("stmt") :
     ExitOf(i).status = "Ok" /\ \E m \in ScopeStarts : Inside(m, i)}

(* let mut x = c; { a binding of x; ... }; x *)
ShadowsOuter(prog) ==
  /\ Len(prog.stmts) = 2
  /\ prog.stmts[1].tag = "LetMut" /\ prog.stmts[1].rhs.tag = "Literal"
  /\ prog.stmts[2].tag = "TermSemicolon" /\ prog.stmts[2].term.tag = "Scope"
  /\ prog.stmts[2].term.block.stmts # << >>
  /\ prog.stmts[2].term.block.stmts[1].tag \in {"Let", "LetMut"}
  /\ prog.stmts[2].term.block.stmts[1].lhs = prog.stmts[1].lhs
  /\ prog.end = Var(prog.stmts[1].lhs)

(***************************************************************************)
(* C4: a Scope leaves the environment of the enclosing block as it was.    *)
(* What the block lowers after a statement holding a Scope sees every name *)
(* (other than the one the statement itself binds) with the value handle   *)
(* and levity it had when the statement started; an operand or argument    *)
(* lowered right after a Scope is given the environment the Scope was      *)
(* given; a LetMut binds a cell that no binding of the environment it      *)
(* started from names; and a program that shadows its `let mut x = c` in a *)
(* Scope, whatever the Scope stores into the inner x, returns c.           *)
(***************************************************************************)
C4_ScopeLeavesEnvironment ==
  /\ Built =>
       /\ \A i \in StmtsWithScope :
            EnvAgreesExcept(Log[i].env, NextInBlock(i).env, OwnBinding(i))
       /\ \A i \in ScopeStarts :
            (/\ ExitOf(i).status = "Ok"
             /\ ExitIdx(i) < Len(Log)
             /\ Log[ExitIdx(i) + 1].ev = "term"
             /\ Front(Log[ExitIdx(i) + 1].path) = Front(Log[i].path))
            => Log[ExitIdx(i) + 1].env = Log[i].env
       /\ \A i \in Events("stmt") :
            (Log[i].tag = "LetMut" /\ ExitOf(i).status = "Ok") =>
              /\ NextInBlock(i).env[Log[i].lhs].lev = Boxed
              /\ \A n \in DOMAIN Log[i].env :
                   Log[i].env[n].val # NextInBlock(i).env[Log[i].lhs].val
  /\ (pc = "done" /\ result.status = "Ok" /\ ShadowsOuter(program)) =>
       /\ ex.status \in {"running", "returned"}
       /\ ex.status = "returned" => ex.ret = IntV(program.stmts[1].rhs.i)

(* a Scope that rebinds the outer Boxed x as a cell and stores into it has *)
(* been lowered, the block went on after it, and "main" has returned       *)
C4_Witness ==
  /\ pc = "done" /\ result.status = "Ok" /\ ex.status = "returned"
  /\ ShadowsOuter(program)
  /\ \E i \in ScopeStarts : \E m \in MutateStarts :
       /\ Inside(m, i)
       /\ Log[m].lhs \in DOMAIN Log[i].env
       /\ Log[i].env[Log[m].lhs].lev = Boxed
       /\ BoundAs(m, "Boxed")
       /\ Log[m].env[Log[m].lhs].val # Log[i].env[Log[m].lhs].val
       /\ \E s \in StmtsWithScope : Inside(i, s)

LetStarts == {i \in Events("stmt") : Log[i].tag = "Let"}
(* the return of the right-hand side of the statement that started at i *)
RhsExit(i) == Log[ExitIdx(i) - 1]

(* the error the specification names; compile.rs has no such error *)
NonConstantLet(n) == <<"Let right-hand side is not a constant", n>>

(***************************************************************************)
(* C5: a Let whose lowered right-hand side is not a known integer constant *)
(* fails with the non-constant-let error for its name; a Let whose         *)
(* right-hand side is the constant c binds the name as Unboxed(c).         *)
(***************************************************************************)
C5_LetNeedsConstant ==
  Built =>
    \A i \in LetStarts :
      RhsExit(i).status = "Ok" =>
        IF RhsExit(i).val.k = "const"
        THEN /\ ExitOf(i).status = "Ok"
             /\ NextInBlock(i).env[Log[i].lhs] =
                  [val |-> RhsExit(i).val, lev |-> Unboxed(RhsExit(i).val.v),
                   ord |-> NextInBlock(i).env[Log[i].lhs].ord,
                   grew |-> NextInBlock(i).env[Log[i].lhs].grew]
        ELSE /\ ExitOf(i).status = "Err"
             /\ ExitOf(i).errs = <<NonConstantLet(Log[i].lhs)>>

(***************************************************************************)
(* The source language on programs of Literal, Infix, Var, Let and Scope:  *)
(* 32-bit two's-complement integers, wrapping add, sub and mul, truncating *)
(* signed division; a division by zero or of MinInt32 by -1 has no value.  *)
(***************************************************************************)
ArithOnly(prog) == tags_block(prog) \subseteq {"Literal", "Infix", "Var", "Let", "Scope"}

RECURSIVE ResolvesTerm(_, _), ResolvesStmts(_, _, _)
ResolvesTerm(t, bound) ==
  CASE t.tag = "Literal" -> TRUE
    [] t.tag = "Var" -> t.name \in bound
    [] t.tag = "Infix" -> ResolvesTerm(t.left, bound) /\ ResolvesTerm(t.right, bound)
    [] t.tag = "Scope" -> ResolvesStmts(t.block, 1, bound)
ResolvesStmts(b, i, bound) ==
  IF i > Len(b.stmts) THEN ResolvesTerm(b.end, bound)
  ELSE /\ ResolvesTerm(b.stmts[i].rhs, bound)
       /\ ResolvesStmts(b, i + 1, bound \cup {b.stmts[i].lhs})
Resolves(prog) == ResolvesStmts(prog, 1, {})

NoValue == [ok |-> FALSE, v |-> 0]
Value(v) == [ok |-> TRUE, v |-> v]

RefInfix(o, a, b) ==
  IF ~a.ok \/ ~b.ok THEN NoValue
  ELSE CASE o = "Add" -> Value(AddWrap(a.v, b.v))
         [] o = "Sub" -> Value(SubWrap(a.v, b.v))
         [] o = "Mul" -> Value(MulWrap(a.v, b.v))
         [] o = "Div" -> IF b.v = 0 \/ (a.v = MinInt32 /\ b.v = -1) THEN NoValue
                         ELSE Value(SDivTrunc(a.v, b.v))

RECURSIVE RefTerm(_, _), RefStmts(_, _, _)
RefTerm(t, vals) ==
  CASE t.tag = "Literal" -> Value(t.i)
    [] t.tag = "Var" -> IF t.name \in DOMAIN vals THEN vals[t.name] ELSE NoValue
    [] t.tag = "Infix" -> RefInfix(t.op, RefTerm(t.left, vals), RefTerm(t.right, vals))
    [] t.tag = "Scope" -> RefStmts(t.block, 1, vals)
RefStmts(b, i, vals) ==
  IF i > Len(b.stmts) THEN RefTerm(b.end, vals)
  ELSE IF ~RefTerm(b.stmts[i].rhs, vals).ok THEN NoValue
  ELSE RefStmts(b, i + 1,
                [n \in DOMAIN vals \cup {b.stmts[i].lhs} |->
                   IF n = b.stmts[i].lhs THEN RefTerm(b.stmts[i].rhs, vals) ELSE vals[n]])
RefEval(prog) == RefStmts(prog, 1, EmptyEnv)

(***************************************************************************)
(* C6: on a program of Literal, Infix, Var, Let and Scope in which every   *)
(* variable reference resolves, lowering succeeds, and when the reference  *)
(* semantics gives the program the integer v, running "main" returns v.    *)
(***************************************************************************)
C6_ArithmeticAgreesWithReference ==
  (pc = "done" /\ ArithOnly(program) /\ Resolves(program)) =>
    /\ result.status = "Ok"
    /\ RefEval(program).ok =>
         /\ ex.status \in {"running", "returned"}
         /\ ex.status = "returned" => ex.ret = IntV(RefEval(program).v)

(* let mut x = n; while x { x = x - 1; e }: n, and its two loop blocks *)
CountdownN == program.stmts[1].rhs.i
LoopBlock == 2
AfterLoopBlock == 3

(***************************************************************************)
(* C7: running the "main" generated for `let mut x = n; while x { x = x -  *)
(* 1 }`, n >= 0, terminates: from the start the run leads to a return from *)
(* the after-loop block with the loop's value 0, after exactly n stores    *)
(* executed in the loop block; at no time have more than n been executed.  *)
(***************************************************************************)
C7_CountdownTerminates ==
  /\ <>[](/\ pc = "done" /\ result.status = "Ok"
          /\ ex.status = "returned"
          /\ ex.blk = AfterLoopBlock
          /\ Preds(AfterLoopBlock) = {1, LoopBlock}
          /\ ex.ret = IntV(0)
          /\ ex.stores[LoopBlock] = CountdownN)
  /\ [](ex.status # "idle" => ex.stores[LoopBlock] <= CountdownN)

C7_Witness ==
  /\ program = Countdown(3, Literal(0))
  /\ ex.status = "returned"
  /\ ex.stores[LoopBlock] = 3
  /\ ex.ret = IntV(0)

(***************************************************************************)
(* Parents and parts in the build log.                                     *)
(***************************************************************************)
Max(S) == CHOOSE x \in S : \A y \in S : x >= y
Starts == Events("term") \cup Events("stmt")
Failures == {j \in Events("exit") : Log[j].status = "Err"}

(* the builds that had started and not yet returned at event j *)
OpenAt(j) == {m \in Starts : m < j /\ j < ExitIdx(m)}
Parent(j) == Max(OpenAt(j))

(* no build starts between events j and k *)
NothingLowered(j, k) == \A m \in (j + 1)..(k - 1) : Log[m].ev \notin {"term", "stmt", "end"}

(* the failure at exit j ends its parent: nothing more is lowered inside   *)
(* the parent, which returns the errors of j; without a parent, j ends the *)
(* lowering of the program's block                                         *)
AbortsParent(j) ==
  IF OpenAt(j) = {}
  THEN /\ NothingLowered(j, Len(Log) + 1)
       /\ result.status = "Err" /\ result.errs = Log[j].errs
  ELSE /\ NothingLowered(j, ExitIdx(Parent(j)))
       /\ ExitOf(Parent(j)).status = "Err"
       /\ ExitOf(Parent(j)).errs = Log[j].errs

RECURSIVE NodeAt(_, _, _)
NodeAt(node, kind, path) ==
  IF path = << >> THEN node
  ELSE CASE kind = "block" ->
              IF Head(path) = 0 THEN NodeAt(node.end, "term", Tail(path))
              ELSE NodeAt(node.stmts[Head(path)], "stmt", Tail(path))
         [] kind = "stmt" ->
              NodeAt(IF node.tag = "TermSemicolon" THEN node.term ELSE node.rhs,
                     "term", Tail(path))
         [] kind = "term" ->
              CASE node.tag = "Infix" ->
                     NodeAt(IF Head(path) = 1 THEN node.left ELSE node.right,
                            "term", Tail(path))
                [] node.tag = "Call" -> NodeAt(node.args[Head(path)], "term", Tail(path))
                [] node.tag = "Scope" -> NodeAt(node.block, "block", Tail(path))
                [] node.tag = "While" ->
                     IF Head(path) = 1 THEN NodeAt(node.cond, "term", Tail(path))
                     ELSE NodeAt(node.body, "block", Tail(path))

CallStarts == {i \in Events("term") : Log[i].tag = "Call"}
CallAt(i) == NodeAt(program, "block", Log[i].path)
ArgExits(i, a) ==
  {j \in Events("exit") : i < j /\ j < ExitIdx(i) /\ Log[j].path = Append(Log[i].path, a)}
ArgExit(i, a) == Log[Min(ArgExits(i, a))]

(* the errors of the failing arguments, the last argument's first *)
RECURSIVE ArgErrs(_, _)
ArgErrs(i, a) ==
  IF a = 0 THEN << >>
  ELSE (IF ArgExit(i, a).status = "Err" THEN ArgExit(i, a).errs ELSE << >>)
       \o ArgErrs(i, a - 1)

(* a Call lowers every argument and fails with the errors of all that fail *)
CollectsArguments(i) ==
  (ToRawOk(CallAt(i).call.name) /\ ExitOf(i).status # "Abort") =>
    /\ \A a \in 1..CallAt(i).call.arity : ArgExits(i, a) # {}
    /\ ExitOf(i).errs = ArgErrs(i, CallAt(i).call.arity)
    /\ ExitOf(i).status = IF ArgErrs(i, CallAt(i).call.arity) = << >> THEN "Ok" ELSE "Err"

(***************************************************************************)
(* C8, as the code has it: the first failing part of an Infix, a           *)
(* statement, a block or a loop ends the lowering of its parent: nothing   *)
(* after it is lowered inside the parent, and the parent returns exactly   *)
(* the failure's errors.  A Call is the exception: it lowers all its       *)
(* arguments whatever the earlier ones returned, and fails with the errors *)
(* of all failing arguments, those of later arguments first.               *)
(***************************************************************************)
C8_FailureAbortsParentExceptCall ==
  Built =>
    /\ \A j \in Failures :
         (OpenAt(j) = {} \/ Log[Parent(j)].tag # "Call") => AbortsParent(j)
    /\ \A i \in CallStarts : CollectsArguments(i)

(***************************************************************************)
(* C8, as the specification has it: the first failing part ends the        *)
(* lowering of its parent, whatever the parent is: no sibling after it is  *)
(* lowered and the parent returns only that failure.                       *)
(***************************************************************************)
C8_FailureAbortsParent == Built => \A j \in Failures : AbortsParent(j)

(* a Call two arguments of which failed was lowered as the left operand of *)
(* an Infix: it returned both errors, the Infix returned them too, and the *)
(* right operand was never lowered                                         *)
C8_Witness ==
  /\ Built
  /\ \E i \in CallStarts :
       /\ Cardinality({a \in 1..CallAt(i).call.arity : ArgExit(i, a).status = "Err"}) = 2
       /\ Len(ExitOf(i).errs) = 2
       /\ OpenAt(ExitIdx(i)) # {}
       /\ Log[Parent(ExitIdx(i))].tag = "Infix"
       /\ Last(Log[i].path) = 1
       /\ \A m \in Events("term") :
            Log[m].path # Append(Log[Parent(ExitIdx(i))].path, 2)
       /\ result.status = "Err"
       /\ result.errs = ExitOf(i).errs

(* the names a program reads or assigns where no binding of them is in scope *)
RECURSIVE UnresolvedTerm(_, _), UnresolvedStmts(_, _, _)
UnresolvedTerm(t, bound) ==
  CASE t.tag = "Literal" -> {}
    [] t.tag = "Var" -> {t.name} \ bound
    [] t.tag = "Infix" -> UnresolvedTerm(t.left, bound) \cup UnresolvedTerm(t.right, bound)
    [] t.tag = "Call" -> UNION {UnresolvedTerm(t.args[a], bound) : a \in DOMAIN t.args}
    [] t.tag = "Scope" -> UnresolvedStmts(t.block, 1, bound)
    [] t.tag = "While" -> UnresolvedTerm(t.cond, bound) \cup UnresolvedStmts(t.body, 1, bound)
UnresolvedStmts(b, i, bound) ==
  IF i > Len(b.stmts) THEN UnresolvedTerm(b.end, bound)
  ELSE CASE b.stmts[i].tag = "TermSemicolon" ->
              UnresolvedTerm(b.stmts[i].term, bound) \cup UnresolvedStmts(b, i + 1, bound)
         [] b.stmts[i].tag = "Mutate" ->
              ({b.stmts[i].lhs} \ bound) \cup UnresolvedTerm(b.stmts[i].rhs, bound)
              \cup UnresolvedStmts(b, i + 1, bound)
         [] OTHER ->
              UnresolvedTerm(b.stmts[i].rhs, bound)
              \cup UnresolvedStmts(b, i + 1, bound \cup {b.stmts[i].lhs})
UnresolvedVars(prog) == UnresolvedStmts(prog, 1, {})

(***************************************************************************)
(* C9: gen_module returns the failures of all its steps in one list: the   *)
(* failure of the callee declaration when a callee name cannot be          *)
(* declared, together with the undeclared-variable error of every name the *)
(* program uses without a binding.                                         *)
(***************************************************************************)
C9_AllFailuresCollected ==
  pc = "done" =>
    /\ (\E c \in CallSitesOf(program) : ~ToRawOk(c.name)) => NulError \in Range(result.errs)
    /\ \A n \in UnresolvedVars(program) : UndeclaredVariable(n) \in Range(result.errs)

(***************************************************************************)
(* The environments of a While that started at event i: the one it is      *)
(* given, the merged one its body starts from, the one its body ends with, *)
(* and the one its condition is lowered against the second time.           *)
(***************************************************************************)
WhileDone ==
  {i \in Events("term") : Log[i].tag = "While" /\ ExitOf(i).status = "Ok"}
WhileAt(i) == NodeAt(program, "block", Log[i].path)
Within(i) == {k \in DOMAIN Log : i < k /\ k < ExitIdx(i)}

GivenEnv(i) == Log[i].env
MergedEnv(i) ==
  Log[Min({k \in Within(i) :
             \/ Log[k].ev = "stmt" /\ Log[k].path = Log[i].path \o <<2, 1>>
             \/ Log[k].ev = "end" /\ Log[k].path = Append(Log[i].path, 2)})].env
PostBodyEnv(i) ==
  Log[Min({k \in Within(i) : Log[k].ev = "end" /\ Log[k].path = Append(Log[i].path, 2)})].env
RecheckEnv(i) ==
  Log[Max({k \in Within(i) : Log[k].ev = "term" /\ Log[k].path = Append(Log[i].path, 1)})].env

MergedNames(i) == (DOMAIN GivenEnv(i)) \cap rhs_vars(WhileAt(i).cond)
(* the phi created for n by the While that started at i *)
MergePoints(i, n) ==
  {phi \in Instructions :
     phi.op = "phi" /\ Reg(phi.id) = MergedEnv(i)[n].val}

(***************************************************************************)
(* C10: a While that was lowered carries, on the latch edge of the phi of  *)
(* every name n its condition reads, what n is bound to in the environment *)
(* its body ends with, and its condition is lowered the second time        *)
(* against that environment.                                               *)
(***************************************************************************)
C10_LatchCarriesPostBodyBinding ==
  Built =>
    \A i \in WhileDone :
      /\ RecheckEnv(i) = PostBodyEnv(i)
      /\ \A n \in MergedNames(i) : \A phi \in MergePoints(i, n) :
           phi.vals[2] = PostBodyEnv(i)[n].val

(***************************************************************************)
(* The shape of the blocks of "main".                                      *)
(***************************************************************************)
IsTerminator(ins) == ins.op \in {"condbr", "ret"}
InstrsOf(b) == llvm.blocks[b].instrs
Terminators(b) == {k \in DOMAIN InstrsOf(b) : IsTerminator(InstrsOf(b)[k])}
PhiPositions(b) == {k \in DOMAIN InstrsOf(b) : InstrsOf(b)[k].op = "phi"}
(* the blocks that hold a return *)
ReturnBlocks ==
  {b \in DOMAIN llvm.blocks : \E k \in DOMAIN InstrsOf(b) : InstrsOf(b)[k].op = "ret"}
(* loop_block and after_loop of the loops: the blocks the branches of      *)
(* lines 282 and 323 enter when the condition is not zero, and when it is  *)
Branches == {ins \in Instructions : ins.op = "condbr"}
LoopBlocks == {ins.else : ins \in Branches}
AfterLoopBlocks == {ins.then : ins \in Branches}

(***************************************************************************)
(* C11: after a successful gen_module every block of "main" (the entry     *)
(* block, each loop block, each afterloop block, and a block is one of     *)
(* these only) ends in exactly one terminator, a                           *)
(* conditional branch or the one return of the function, which is its last *)
(* instruction, so that nothing follows a terminator; and the phis of a    *)
(* block are its first instructions and stand in loop blocks only.         *)
(***************************************************************************)
C11_BlocksWellFormed ==
  BuiltOk =>
    /\ llvm.blocks # << >>
    /\ 1 \notin LoopBlocks \cup AfterLoopBlocks
    /\ LoopBlocks \cap AfterLoopBlocks = {}
    /\ \A b \in DOMAIN llvm.blocks :
         /\ b > 1 => b \in LoopBlocks \cup AfterLoopBlocks
         /\ Terminators(b) = {Len(InstrsOf(b))}
         /\ PhiPositions(b) = 1..Cardinality(PhiPositions(b))
         /\ PhiPositions(b) # {} => b \in LoopBlocks
    /\ Cardinality(ReturnBlocks) = 1

(* loops as the operand of an Infix and as the argument of a Call have     *)
(* been lowered with success: a loop block holds a phi followed by other   *)
(* instructions, and the return stands in the last afterloop block         *)
C11_Witness ==
  /\ BuiltOk
  /\ {"Infix", "Call", "While"} \subseteq tags_block(program)
  /\ Len(llvm.blocks) >= 5
  /\ \E b \in DOMAIN llvm.blocks :
       /\ PhiPositions(b) # {}
       /\ Len(InstrsOf(b)) > Cardinality(PhiPositions(b)) + 1
  /\ Len(llvm.blocks) \in AfterLoopBlocks
  /\ InstrsOf(Len(llvm.blocks))[Len(InstrsOf(Len(llvm.blocks)))].op = "ret"

====
